---- MODULE Spec2Model ----
(***************************************************************************)
(* Model of src/main.js: the zmanim page of BMH, Mt Ivy NY.                *)
(*                                                                         *)
(* Representation.                                                         *)
(*  - An instant (a JS Date's time value) is a whole number of MINUTES     *)
(*    since 1970-01-01T00:00Z.  Every instant the program builds from its  *)
(*    inputs is a whole minute (the raw sunset is rounded to a minute, the *)
(*    reference time is "17:17"), and "now" is only read through           *)
(*    getFullYear/getDate/getDay/getHours.                                 *)
(*  - A JS number that is not an integer (degrees, hours, sines) is a      *)
(*    fixed-point integer with FX units per 1.  The trigonometry is        *)
(*    evaluated by series and bisection in that resolution, so a sunset    *)
(*    of the model can differ from the double-precision one by a minute.   *)
(*  - The host's local time zone is America/New_York (the zone of the      *)
(*    fixed location): UTC-5, and UTC-4 from the second Sunday of March    *)
(*    02:00 to the first Sunday of November 02:00.                         *)
(***************************************************************************)
EXTENDS Integers, Sequences, FiniteSets, TLC

VARIABLES
  now,            \* the instant of the page load, read by each new Date()
  LAT,            \* the configured latitude (the global of line 2)
  dom,            \* ids of the elements the document has
  text,           \* textContent of each element of the document
  pc,             \* the statement of the DOMContentLoaded handler to run next
  CAL_OFFSET_MS,  \* the global of line 13
  calWrites,      \* number of assignments to CAL_OFFSET_MS so far
  usedOffsets,    \* offsets getSunsetWithCalibration has added so far
  weekday,        \* locals of updateWeekdayMinchaMaariv once it has run
  shabbos,        \* locals of updateShabbosTimes once it has run
  parsha          \* updateParsha: where it is suspended, its promise, and
                  \* what the network delivered to it

vars == <<now, LAT, dom, text, pc, CAL_OFFSET_MS, calWrites, usedOffsets,
          weekday, shabbos, parsha>>

(***************************************************************************)
(* Fixed-point arithmetic                                                  *)
(***************************************************************************)
\* units per 1 of the fixed-point representation of a JS number
FX == 10000

\* the decimal literal i.f (f over d) in fixed point
Num(i, f, d) == i * FX + (f * FX) \div d

\* a * (n / d) for a decimal literal n/d, without leaving 32 bits
ScaleNat(a, n, d) == (a \div d) * n + ((a % d) * n) \div d
Scale(a, n, d) == IF a < 0 THEN -ScaleNat(-a, n, d) ELSE ScaleNat(a, n, d)

\* a * b of two fixed-point numbers
Mul(a, b) == (a \div FX) * b + ((a % FX) * b) \div FX

\* a / b of two fixed-point numbers
Div(a, b) == IF b > 0 THEN (a * FX) \div b ELSE -((a * FX) \div (-b))

Abs(a) == IF a < 0 THEN -a ELSE a

\* ((x % m) + m) % m of lines 47, 50, 72: the non-negative remainder
PosMod(x, m) == x % m

\* degrees (fixed point, 0..90) to radians (fixed point): x * Math.PI / 180,
\* with 71/4068 for PI/180
Rad(d) == Scale(d, 71, 4068)

\* Math.sin of a fixed-point radian argument in 0..PI/2 (Taylor, to x^9)
SinR(x) ==
  LET x2 == Mul(x, x)
      t4 == FX - (x2 \div 72)
      t3 == FX - (Mul(x2, t4) \div 42)
      t2 == FX - (Mul(x2, t3) \div 20)
      t1 == FX - (Mul(x2, t2) \div 6)
  IN  Mul(x, t1)

\* sin = x => Math.sin(x * Math.PI / 180), line 42
sin(x) ==
  LET r == PosMod(x, 360 * FX)
  IN  IF r <= 90 * FX THEN SinR(Rad(r))
      ELSE IF r <= 180 * FX THEN SinR(Rad(180 * FX - r))
      ELSE IF r <= 270 * FX THEN -SinR(Rad(r - 180 * FX))
      ELSE -SinR(Rad(360 * FX - r))

\* cos = x => Math.cos(x * Math.PI / 180), line 43
cos(x) == sin(x + 90 * FX)

\* width (fixed-point degrees) at which a bisection for an angle stops
AngleTol == 8

\* Math.atan(0.91764 * tan(L)) * 180 / Math.PI of line 49, in degrees
\* (-90..90): the angle a with sin(a) * cos(L) = 0.91764 * sin(L) * cos(a),
\* found by bisection (tan(L) itself has no fixed-point value near 90).
RECURSIVE AtanBisect(_, _, _, _)
AtanBisect(s, c, lo, hi) ==
  IF hi - lo <= AngleTol THEN (lo + hi) \div 2
  ELSE LET mid == (lo + hi) \div 2
       IN  IF Mul(sin(mid), c) - Mul(cos(mid), s) >= 0
           THEN AtanBisect(s, c, lo, mid)
           ELSE AtanBisect(s, c, mid, hi)

AtanScaledTan(L) ==
  LET s0 == Scale(sin(L), 91764, 100000)
      c0 == cos(L)
      s  == IF c0 < 0 THEN -s0 ELSE s0
      c  == Abs(c0)
  IN  AtanBisect(s, c, -90 * FX, 90 * FX)

\* Math.asin(y) in degrees (-90..90), line 58
RECURSIVE AsinBisect(_, _, _)
AsinBisect(y, lo, hi) ==
  IF hi - lo <= AngleTol THEN (lo + hi) \div 2
  ELSE LET mid == (lo + hi) \div 2
       IN  IF sin(mid) >= y THEN AsinBisect(y, lo, mid)
           ELSE AsinBisect(y, mid, hi)

asinDeg(y) == AsinBisect(y, -90 * FX, 90 * FX)

\* Math.acos(c) * 180 / Math.PI in degrees (0..180), line 66
RECURSIVE AcosBisect(_, _, _)
AcosBisect(y, lo, hi) ==
  IF hi - lo <= AngleTol THEN (lo + hi) \div 2
  ELSE LET mid == (lo + hi) \div 2
       IN  IF cos(mid) <= y THEN AcosBisect(y, lo, mid)
           ELSE AcosBisect(y, mid, hi)

acosDeg(y) == AcosBisect(y, 0, 180 * FX)

\* Math.floor(x / 90) * 90 of lines 52-53, x in fixed-point degrees
Quadrant(x) == (x \div (90 * FX)) * (90 * FX)

(***************************************************************************)
(* Configuration, lines 1-11                                               *)
(***************************************************************************)
\* LAT as shipped, and a site inside the polar circle: the configuration
\* under which the engine's "no sunset" branch (line 63) is taken
LAT_MT_IVY == Num(41, 19392, 100000)
LAT_POLAR == 70 * FX
LNG == -Num(74, 2504, 100000)
ZENITH_DEG == 90 * FX
CALIBRATION_ENABLED == TRUE
\* REFERENCE_SHABBOS = "2025-12-06": year, month (1-12), day
REFERENCE_SHABBOS == <<2025, 12, 6>>
\* REFERENCE_MOTZAEI_MAARIV = "17:17": hours, minutes
REFERENCE_MOTZAEI_MAARIV == <<17, 17>>
REFERENCE_MAARIV_OFFSET_MIN == 50

\* null (lines 63, 79, 91): no instant and no UT value is negative
NULL == -1

(***************************************************************************)
(* Calendar and the host's local time (ECMAScript Date)                    *)
(***************************************************************************)
MIN_PER_HOUR == 60
MIN_PER_DAY == 24 * MIN_PER_HOUR
\* 60 * 1000 of lines 85, 139, 168: milliseconds per minute
MS_PER_MIN == 60 * 1000

IsLeap(y) == (y % 4 = 0 /\ y % 100 # 0) \/ y % 400 = 0

\* day number (days since 1970-01-01) of January 1 of year y
DayFromYear(y) ==
  365 * (y - 1970) + ((y - 1969) \div 4) - ((y - 1901) \div 100)
    + ((y - 1601) \div 400)

\* days of the year before month m (0-11)
DaysBeforeMonth(y, m) ==
  LET cum == <<0, 31, 59, 90, 120, 151, 181, 212, 243, 273, 304, 334, 365>>
  IN  cum[m + 1] + (IF m >= 2 /\ IsLeap(y) THEN 1 ELSE 0)

\* MakeDay: the day number of year y, month m (0-11), day-of-month dt; dt
\* outside the month runs into the neighbouring months, as in JS
MakeDay(y, m, dt) == DayFromYear(y) + DaysBeforeMonth(y, m) + dt - 1

YearFromDay(day) ==
  CHOOSE y \in (1970 + day \div 366)..(1970 + day \div 365) :
    DayFromYear(y) <= day /\ day < DayFromYear(y + 1)

MonthFromDay(day) ==
  LET y == YearFromDay(day)
      k == day - DayFromYear(y)
  IN  CHOOSE m \in 0..11 :
        DaysBeforeMonth(y, m) <= k /\ k < DaysBeforeMonth(y, m + 1)

DateFromDay(day) ==
  LET y == YearFromDay(day)
  IN  day - DayFromYear(y) - DaysBeforeMonth(y, MonthFromDay(day)) + 1

\* 0 = Sunday .. 6 = Saturday (1970-01-01 was a Thursday)
WeekDay(day) == (day + 4) % 7

\* first Sunday on or after day
SundayOnOrAfter(day) == day + ((7 - WeekDay(day)) % 7)

\* local standard offset and daylight offset of the host zone, minutes
STD_OFFSET == -5 * MIN_PER_HOUR
DST_OFFSET == -4 * MIN_PER_HOUR

\* daylight time starts on the second Sunday of March at 02:00 standard time
DstStartUtc(y) ==
  (SundayOnOrAfter(MakeDay(y, 2, 1)) + 7) * MIN_PER_DAY + 2 * MIN_PER_HOUR
    - STD_OFFSET
\* and ends on the first Sunday of November at 02:00 daylight time
DstEndUtc(y) ==
  SundayOnOrAfter(MakeDay(y, 10, 1)) * MIN_PER_DAY + 2 * MIN_PER_HOUR
    - DST_OFFSET

\* offset of local time from UTC at the instant t
OffsetAtUtc(t) ==
  LET y == YearFromDay((t + STD_OFFSET) \div MIN_PER_DAY)
  IN  IF DstStartUtc(y) <= t /\ t < DstEndUtc(y) THEN DST_OFFSET
      ELSE STD_OFFSET

\* LocalTime(t): the wall-clock minutes of the instant t
LocalTime(t) == t + OffsetAtUtc(t)

\* UTC(w): the instant of the wall-clock minutes w; a wall-clock time the
\* spring transition skips is read with the offset before it, one the
\* autumn transition repeats is the first of the two
UtcOfLocal(w) ==
  LET y == YearFromDay(w \div MIN_PER_DAY)
  IN  IF DstStartUtc(y) + DST_OFFSET <= w /\ w < DstEndUtc(y) + DST_OFFSET
      THEN w - DST_OFFSET
      ELSE w - STD_OFFSET

\* Date getters, on the local time of the instant
LocalDay(t) == LocalTime(t) \div MIN_PER_DAY
getFullYear(t) == YearFromDay(LocalDay(t))
getMonth(t) == MonthFromDay(LocalDay(t))
getDate(t) == DateFromDay(LocalDay(t))
getDay(t) == WeekDay(LocalDay(t))
getHours(t) == (LocalTime(t) % MIN_PER_DAY) \div MIN_PER_HOUR

\* new Date(year, month, day): local midnight
NewDate(y, m, dt) == UtcOfLocal(MakeDay(y, m, dt) * MIN_PER_DAY)

\* d.setDate(x): the day-of-month replaced, the local time of day kept
setDate(t, x) ==
  UtcOfLocal(MakeDay(getFullYear(t), getMonth(t), x) * MIN_PER_DAY
               + (LocalTime(t) % MIN_PER_DAY))

\* d.setHours(h, m, 0, 0)
setHours(t, h, m) ==
  UtcOfLocal(LocalDay(t) * MIN_PER_DAY + h * MIN_PER_HOUR + m)

\* Date.UTC(year, month, day, 0, 0, 0), in minutes
DateUTC(y, m, dt) == MakeDay(y, m, dt) * MIN_PER_DAY

(***************************************************************************)
(* SolarTimeEngine, lines 15-94                                            *)
(***************************************************************************)
\* toDateParts, lines 15-22
toDateParts(date) ==
  [year |-> getFullYear(date), month |-> getMonth(date), day |-> getDate(date)]

\* dayOfYear, lines 24-30: oneDay is MIN_PER_DAY minutes
dayOfYear(date) ==
  LET start == NewDate(getFullYear(date), 0, 0)
      diff  == date - start
  IN  diff \div MIN_PER_DAY

\* line 38: t = N + ((18 - lngHour) / 24.0)
ApproxTime(N, lngHour) == N * FX + ((18 * FX - lngHour) \div 24)

\* line 40: M = (0.9856 * t) - 3.289
MeanAnomaly(t) == Scale(t, 9856, 10000) - Num(3, 289, 1000)

\* lines 46-47: the true longitude, in 0..360
TrueLongitude(M) ==
  PosMod(M + Scale(sin(M), 1916, 1000) + Scale(sin(2 * M), 20, 1000)
           + Num(282, 634, 1000),
         360 * FX)

\* lines 52-55: RA moved into the quadrant of L, then to hours
QuadrantAdjust(L, RA) == (RA + (Quadrant(L) - Quadrant(RA))) \div 15

\* lines 49-55: the right ascension, in hours
RightAscension(L) == QuadrantAdjust(L, PosMod(AtanScaledTan(L), 360 * FX))

\* line 57
SinDec(L) == Scale(sin(L), 39782, 100000)

\* line 58
CosDec(sinDec) == cos(asinDeg(sinDec))

\* line 60: the cosine of the hour angle; it reads the global LAT, not the
\* parameter latDeg
CosH(sinDec, zenithDeg) ==
  Div(cos(zenithDeg) - Mul(sinDec, sin(LAT)), Mul(CosDec(sinDec), cos(LAT)))

\* lines 62-73: null when the hour angle has no value, else UT in 0..24
HourAngleToUT(cosH, RA, t, lngHour) ==
  IF cosH < -FX \/ cosH > FX THEN NULL
  ELSE PosMod((acosDeg(cosH) \div 15) + RA - Scale(t, 6571, 100000)
                - Num(6, 622, 1000) - lngHour,
              24 * FX)

\* lines 49-73, for the true longitude L
SunsetFromLongitude(L, t, lngHour, zenithDeg) ==
  HourAngleToUT(CosH(SinDec(L), zenithDeg), RightAscension(L), t, lngHour)

\* lines 40-73, for the approximate time t
SunsetFromTime(t, lngHour, zenithDeg) ==
  SunsetFromLongitude(TrueLongitude(MeanAnomaly(t)), t, lngHour, zenithDeg)

\* noaaSunsetUT, lines 33-74: UT hours in fixed point, or NULL
noaaSunsetUT(date, latDeg, lngDeg, zenithDeg) ==
  SunsetFromTime(ApproxTime(dayOfYear(date), lngDeg \div 15),
                 lngDeg \div 15, zenithDeg)

\* line 82: Math.round((utHours - hours) * 60) of the fraction of an hour
RoundMinutes(frac) == (frac * 60 + FX \div 2) \div FX

\* lines 79-86: the instant of UT hours utHours on the UTC day baseUTC
RawInstant(utHours, baseUTC) ==
  IF utHours = NULL THEN NULL
  ELSE baseUTC + ((utHours \div FX) * 60 + RoundMinutes(utHours % FX))

\* lines 78-86, for the date parts p
RawOfParts(p, latDeg, lngDeg, zenithDeg) ==
  RawInstant(noaaSunsetUT(NewDate(p.year, p.month, p.day),
                          latDeg, lngDeg, zenithDeg),
             DateUTC(p.year, p.month, p.day))

\* getNoaaSunsetDateRaw, lines 76-87
getNoaaSunsetDateRaw(date, latDeg, lngDeg, zenithDeg) ==
  RawOfParts(toDateParts(date), latDeg, lngDeg, zenithDeg)

\* lines 92-93: the offset (ms) getSunsetWithCalibration adds to a raw sunset
OffsetAdded ==
  IF ~CALIBRATION_ENABLED \/ CAL_OFFSET_MS = 0 THEN 0 ELSE CAL_OFFSET_MS

\* lines 91-93
AddOffset(raw) ==
  IF raw = NULL THEN NULL ELSE raw + OffsetAdded \div MS_PER_MIN

\* getSunsetWithCalibration, lines 89-94
getSunsetWithCalibration(date) ==
  AddOffset(getNoaaSunsetDateRaw(date, LAT, LNG, ZENITH_DEG))

\* two digits of a minute
TwoDigits(n) == IF n < 10 THEN "0" \o ToString(n) ELSE ToString(n)

\* "h:mm AM" of the hour h (0-23) and minute m
ClockText(h, m) ==
  ToString(IF h % 12 = 0 THEN 12 ELSE h % 12) \o ":" \o TwoDigits(m) \o
    (IF h < 12 THEN " AM" ELSE " PM")

\* "h:mm AM" of the wall-clock minute of the day w
WallText(w) == ClockText(w \div MIN_PER_HOUR, w % MIN_PER_HOUR)

\* formatTimeLocal, lines 96-101: en-US hour and 2-digit minute, local time
formatTimeLocal(date) == WallText(LocalTime(date) % MIN_PER_DAY)

(***************************************************************************)
(* Date selection, lines 103-129                                           *)
(***************************************************************************)
\* getSundayOfWeek, lines 104-110
getSundayOfWeek(date) ==
  setHours(setDate(date, getDate(date) - getDay(date)), 12, 0)

\* mutant of ShabbosDiff: > 18 for >= 18 at line 116
ShabbosDiffAfterSix(day, hours) ==
  IF (6 - day + 7) % 7 = 0 /\ hours > 18 THEN 7 ELSE (6 - day + 7) % 7

\* lines 115-118
ShabbosDiff(day, hours) ==
  IF (6 - day + 7) % 7 = 0 /\ hours >= 18 THEN 7 ELSE (6 - day + 7) % 7

\* getComingShabbos, lines 112-122
getComingShabbos(fromDate) ==
  setHours(setDate(fromDate,
                   getDate(fromDate)
                     + ShabbosDiff(getDay(fromDate), getHours(fromDate))),
           12, 0)

\* new Date("YYYY-MM-DD" + "T00:00:00"): local midnight, month 1-12 in the text
ParseLocalDate(dateString) ==
  NewDate(dateString[1], dateString[2] - 1, dateString[3])

\* parseLocalTimeOnDate, lines 124-129
parseLocalTimeOnDate(dateString, timeStr) ==
  setHours(ParseLocalDate(dateString), timeStr[1], timeStr[2])

(***************************************************************************)
(* CalibrationCalculator, lines 131-143                                    *)
(***************************************************************************)
\* mutant of OffsetFromComputed: the reference Maariv itself taken for the
\* sunset (line 139 left out)
OffsetWithoutMaarivOffset(computedSunset) ==
  IF computedSunset = NULL THEN 0
  ELSE (parseLocalTimeOnDate(REFERENCE_SHABBOS, REFERENCE_MOTZAEI_MAARIV)
          - computedSunset) * MS_PER_MIN

\* lines 136-142
OffsetFromComputed(computedSunset) ==
  IF computedSunset = NULL THEN 0
  ELSE ((parseLocalTimeOnDate(REFERENCE_SHABBOS, REFERENCE_MOTZAEI_MAARIV)
           - REFERENCE_MAARIV_OFFSET_MIN)
          - computedSunset) * MS_PER_MIN

\* computeCalibrationOffsetMs, lines 131-143
computeCalibrationOffsetMs ==
  IF ~CALIBRATION_ENABLED THEN 0
  ELSE OffsetFromComputed(
         getNoaaSunsetDateRaw(
           setHours(ParseLocalDate(REFERENCE_SHABBOS), 12, 0),
           LAT, LNG, ZENITH_DEG))

(***************************************************************************)
(* The document                                                            *)
(***************************************************************************)
WeekdayIds == {"weekdayMinchaMaariv", "weekdayMinchaMaarivCard",
               "heroWeekdayMincha"}
ShabbosIds == {"erevShabbosMinchaTime", "shabbosMinchaTime",
               "shabbosMaarivTime", "heroShabbosMincha", "heroShabbosMaariv"}
AllIds == WeekdayIds \cup ShabbosIds \cup {"parshaName", "year"}

\* the documents the script is loaded into: the full page, a page without
\* the reading-name element, a page without the hero block and the footer
Documents ==
  { AllIds,
    AllIds \ {"parshaName"},
    AllIds \ {"heroWeekdayMincha", "heroShabbosMincha", "heroShabbosMaariv",
              "year"} }

\* textContent of an element the script has not written yet
PLACEHOLDER == ""
WEEKDAY_FALLBACK == "Check shul board"
SHABBOS_FALLBACK == "See local listing"
DASH == "--"

\* the elements of an array
Range(f) == { f[i] : i \in DOMAIN f }

\* const el = document.getElementById(id); if (el) el.textContent = s
SetText(t, id, s) == IF id \in DOMAIN t THEN [t EXCEPT ![id] = s] ELSE t

\* ids.forEach(id => { const el = ...; if (el) el.textContent = s })
SetAll(t, ids, s) == [id \in DOMAIN t |-> IF id \in ids THEN s ELSE t[id]]

(***************************************************************************)
(* ScheduleComposer, lines 145-233                                         *)
(***************************************************************************)
\* lines 151-153: Sunday + 0..4
DatesFrom(sunday) ==
  [i \in 1..5 |-> setDate(sunday, getDate(sunday) + (i - 1))]

WeekdayDates(today) == DatesFrom(getSundayOfWeek(today))

\* lines 162-165: the earliest of a non-empty array of instants
RECURSIVE EarliestFrom(_, _, _)
EarliestFrom(sunsets, i, earliest) ==
  IF i > Len(sunsets) THEN earliest
  ELSE EarliestFrom(sunsets, i + 1,
                    IF sunsets[i] < earliest THEN sunsets[i] ELSE earliest)

\* mutant of Earliest: the comparison of line 164 turned round
LatestInstead(sunsets) ==
  CHOOSE m \in Range(sunsets) : \A x \in Range(sunsets) : x <= m

Earliest(sunsets) == EarliestFrom(sunsets, 1, sunsets[1])

\* line 168: Mincha/Maariv = 15 minutes before shkiya
WeekdayMincha(earliest) == earliest - 15

\* line 154: the value of sunset in each of the five iterations
SunsetOfEach(dates) ==
  [i \in 1..5 |-> getSunsetWithCalibration(dates[i])]

\* line 155: if (sunset) sunsets.push(sunset)
Pushed(each) == SelectSeq(each, LAMBDA x : x # NULL)

\* lines 159-168
WeekdayResult(dates, each, sunsets) ==
  [ran        |-> TRUE,
   dates      |-> dates,
   each       |-> each,
   sunsets    |-> sunsets,
   failed     |-> Len(sunsets) = 0,
   minchaTime |-> IF Len(sunsets) = 0 THEN NULL
                  ELSE WeekdayMincha(Earliest(sunsets))]

WeekdayFromEach(dates, each) == WeekdayResult(dates, each, Pushed(each))

WeekdayFromDates(dates) == WeekdayFromEach(dates, SunsetOfEach(dates))

\* the locals of updateWeekdayMinchaMaariv, lines 146-169
WeekdayLocals(today) == WeekdayFromDates(WeekdayDates(today))

\* lines 179-185: the catch block
WeekdayFallback(t) == SetAll(t, WeekdayIds, WEEKDAY_FALLBACK)

\* lines 169-185: what updateWeekdayMinchaMaariv writes
WeekdayText(t, w) ==
  IF w.failed THEN WeekdayFallback(t)
  ELSE SetAll(t, WeekdayIds, formatTimeLocal(w.minchaTime))

\* mutant of ShabbosTimes: the Shabbos-day Mincha offset used for Maariv
ShabbosTimesMaariv45(sunset) ==
  [erevMincha    |-> sunset - 15,
   shabbosMincha |-> sunset - 45,
   maariv        |-> sunset + 45]

\* lines 198-202
ShabbosTimes(sunset) ==
  [erevMincha    |-> sunset - 15,
   shabbosMincha |-> sunset - 45,
   maariv        |-> sunset + 50]

\* lines 194-202
ShabbosResult(date, sunset) ==
  [ran    |-> TRUE,
   date   |-> date,
   sunset |-> sunset,
   failed |-> sunset = NULL,
   times  |-> IF sunset = NULL
              THEN [erevMincha |-> NULL, shabbosMincha |-> NULL,
                    maariv |-> NULL]
              ELSE ShabbosTimes(sunset)]

ShabbosOn(date) == ShabbosResult(date, getSunsetWithCalibration(date))

\* the locals of updateShabbosTimes, lines 190-202
ShabbosLocals(today) == ShabbosOn(getComingShabbos(today))

\* mutant of ShabbosFallback: the fallback written to the weekday slots too
ShabbosFallbackEverywhere(t) ==
  SetAll(t, ShabbosIds \cup WeekdayIds, SHABBOS_FALLBACK)

\* lines 220-231: the catch block
ShabbosFallback(t) == SetAll(t, ShabbosIds, SHABBOS_FALLBACK)

\* lines 208-218
ShabbosStrings(t, erevMinchaStr, shabbosMinchaStr, maarivStr) ==
  [id \in DOMAIN t |->
     CASE id = "erevShabbosMinchaTime" -> erevMinchaStr
       [] id = "shabbosMinchaTime"     -> shabbosMinchaStr
       [] id = "shabbosMaarivTime"     -> maarivStr
       [] id = "heroShabbosMincha"     -> shabbosMinchaStr
       [] id = "heroShabbosMaariv"     -> maarivStr
       [] OTHER                        -> t[id]]

\* lines 204-231: what updateShabbosTimes writes
ShabbosText(t, s) ==
  IF s.failed THEN ShabbosFallback(t)
  ELSE ShabbosStrings(t, formatTimeLocal(s.times.erevMincha),
                      formatTimeLocal(s.times.shabbosMincha),
                      formatTimeLocal(s.times.maariv))


(***************************************************************************)
(* CalendarLookup, lines 234-260                                           *)
(***************************************************************************)
\* longest item list of a response body
MaxItems == 2

\* an element of data.items: null, or an object whose absent or empty
\* fields are ""
NullItem == [null |-> TRUE, category |-> "", hebrew |-> "", title |-> ""]
Items ==
  { NullItem,
    [null |-> FALSE, category |-> "parashat", hebrew |-> "Vayishlach (he)",
     title |-> "Parashat Vayishlach"],
    [null |-> FALSE, category |-> "parashat", hebrew |-> "",
     title |-> "Parashat Vayishlach"],
    [null |-> FALSE, category |-> "parashat", hebrew |-> "", title |-> ""],
    [null |-> FALSE, category |-> "candles", hebrew |-> "Candles (he)",
     title |-> "Candle lighting"] }

ItemLists == UNION { [1..n -> Items] : n \in 0..MaxItems }

\* how the fetch promise settles: rejected, or a response with a status
FetchOutcomes == {"reject", "200", "404", "500"}

\* how res.json() settles: rejected (the body is not JSON), or the value
\* parsed: null, an object without items, an object with an item list
Bodies ==
  { [kind |-> "invalid", items |-> <<>>],
    [kind |-> "null", items |-> <<>>],
    [kind |-> "noItems", items |-> <<>>] }
  \cup { [kind |-> "items", items |-> l] : l \in ItemLists }

THROWN == "thrown"

\* data.items.find(item => item.category === "parashat"), line 248: the
\* index of the first such item, 0 for undefined, THROWN when the callback
\* meets a null item first
RECURSIVE FindParashat(_, _)
FindParashat(items, i) ==
  IF i > Len(items) THEN "0"
  ELSE IF items[i].null THEN THROWN
  ELSE IF items[i].category = "parashat" THEN ToString(i)
  ELSE FindParashat(items, i + 1)

\* lines 250-255: the text for the parsha item found
ParshaName(items) ==
  LET k == FindParashat(items, 1)
  IN  IF k = THROWN THEN THROWN
      ELSE IF k = "0" THEN DASH
      ELSE LET parshaItem == CHOOSE x \in Range(items) :
                               \E i \in DOMAIN items :
                                 ToString(i) = k /\ x = items[i]
           IN  IF parshaItem.hebrew # "" THEN parshaItem.hebrew
               ELSE IF parshaItem.title # "" THEN parshaItem.title
               ELSE DASH

\* lines 245-255 once res.json() has settled with body: the text written
\* by the try block, or THROWN when it throws
ParshaFromBody(body) ==
  IF body.kind \in {"invalid", "null", "noItems"} THEN THROWN
  ELSE ParshaName(body.items)

\* lines 256-259: the catch block
ParshaFallback(t) == SetText(t, "parshaName", DASH)

\* mutant of ParshaText: the catch block writes nothing
ParshaTextNoFallback(t, outcome) ==
  IF outcome = THROWN THEN t ELSE SetText(t, "parshaName", outcome)

\* the try block's outcome written to the document
ParshaText(t, outcome) ==
  IF outcome = THROWN THEN ParshaFallback(t)
  ELSE SetText(t, "parshaName", outcome)

\* no response body read yet
NoBody == [kind |-> "none", items |-> <<>>]

\* mutant of ParshaDone: no catch block, what the try block throws rejects
\* the promise
ParshaDoneUncaught(p, outcome) ==
  [p EXCEPT !.at = "returned",
            !.promise = IF outcome = THROWN THEN "rejected"
                        ELSE "fulfilled"]

\* updateParsha at its end: the try block ended with outcome, and the catch
\* block (lines 256-259) has handled what it threw, so the promise of the
\* async function is fulfilled
ParshaDone(p, outcome) ==
  [p EXCEPT !.at = "returned", !.promise = "fulfilled"]

(***************************************************************************)
(* The page load, lines 261-269                                            *)
(***************************************************************************)
\* number of page-load instants examined, and their spacing in minutes:
\* 125 hours, so that the instants run through every weekday and hour
MaxSample == 170
SampleStep == 7500

Todays ==
  { NewDate(2025, 10, 30) + k * SampleStep : k \in 0..MaxSample }

\* mutant of HandlerNext: the offset computed after the weekday schedule
HandlerNextLateCalibration(at) ==
  CASE at = "year"      -> "weekday"
    [] at = "weekday"   -> "calibrate"
    [] at = "calibrate" -> "shabbos"
    [] at = "shabbos"   -> "parsha"
    [] at = "parsha"    -> "returned"

\* the statements of the handler in program order
HandlerNext(at) ==
  CASE at = "year"      -> "calibrate"
    [] at = "calibrate" -> "weekday"
    [] at = "weekday"   -> "shabbos"
    [] at = "shabbos"   -> "parsha"
    [] at = "parsha"    -> "returned"

\* the locals of a schedule function that has not run yet
NotRun == [ran |-> FALSE]

Init ==
  /\ now \in Todays
  /\ LAT \in {LAT_MT_IVY, LAT_POLAR}
  /\ dom \in Documents
  /\ text = [id \in dom |-> PLACEHOLDER]
  /\ pc = "year"
  /\ CAL_OFFSET_MS = 0
  /\ calWrites = 0
  /\ usedOffsets = {}
  /\ weekday = NotRun
  /\ shabbos = NotRun
  /\ parsha = [at |-> "idle", promise |-> "none", fetch |-> "", body |-> NoBody]

\* lines 262-263
SetYear ==
  /\ pc = "year"
  /\ text' = SetText(text, "year", ToString(getFullYear(now)))
  /\ pc' = HandlerNext(pc)
  /\ UNCHANGED <<now, LAT, dom, CAL_OFFSET_MS, calWrites, usedOffsets,
                 weekday, shabbos, parsha>>

\* line 265
Calibrate ==
  /\ pc = "calibrate"
  /\ CAL_OFFSET_MS' = computeCalibrationOffsetMs
  /\ calWrites' = calWrites + 1
  /\ pc' = HandlerNext(pc)
  /\ UNCHANGED <<now, LAT, dom, text, usedOffsets, weekday, shabbos, parsha>>

\* line 266: updateWeekdayMinchaMaariv() runs to its end (it awaits nothing)
UpdateWeekday ==
  /\ pc = "weekday"
  /\ \E w \in {WeekdayLocals(now)} :
         /\ weekday' = w
         /\ text' = WeekdayText(text, w)
         /\ usedOffsets' = IF w.failed THEN usedOffsets
                          ELSE usedOffsets \cup {OffsetAdded}
  /\ pc' = HandlerNext(pc)
  /\ UNCHANGED <<now, LAT, dom, CAL_OFFSET_MS, calWrites, shabbos, parsha>>

\* line 267: updateShabbosTimes() runs to its end (it awaits nothing)
UpdateShabbos ==
  /\ pc = "shabbos"
  /\ \E s \in {ShabbosLocals(now)} :
         /\ shabbos' = s
         /\ text' = ShabbosText(text, s)
         /\ usedOffsets' = IF s.failed THEN usedOffsets
                          ELSE usedOffsets \cup {OffsetAdded}
  /\ pc' = HandlerNext(pc)
  /\ UNCHANGED <<now, LAT, dom, CAL_OFFSET_MS, calWrites, weekday, parsha>>

\* line 268: updateParsha() runs to its first await (line 243), or returns
\* at line 236 when the document has no parshaName element
StartParsha ==
  /\ pc = "parsha"
  /\ parsha' = IF "parshaName" \in dom
               THEN [parsha EXCEPT !.at = "awaitFetch", !.promise = "pending"]
               ELSE [parsha EXCEPT !.at = "returned", !.promise = "fulfilled"]
  /\ pc' = HandlerNext(pc)
  /\ UNCHANGED <<now, LAT, dom, text, CAL_OFFSET_MS, calWrites, usedOffsets,
                 weekday, shabbos>>

\* the fetch promise settles and updateParsha resumes at line 243; it runs
\* to the await of line 245, or through the catch block to its end
FetchSettled ==
  /\ pc = "returned"
  /\ parsha.at = "awaitFetch"
  /\ \E r \in FetchOutcomes :
       IF r = "200"
       THEN /\ parsha' = [parsha EXCEPT !.at = "awaitJson", !.fetch = r]
            /\ text' = text
       ELSE /\ parsha' = ParshaDone([parsha EXCEPT !.fetch = r], THROWN)
            /\ text' = ParshaText(text, THROWN)
  /\ UNCHANGED <<now, LAT, dom, pc, CAL_OFFSET_MS, calWrites, usedOffsets,
                 weekday, shabbos>>

\* the res.json() promise settles and updateParsha resumes at line 245 and
\* runs to its end
JsonSettled ==
  /\ pc = "returned"
  /\ parsha.at = "awaitJson"
  /\ \E body \in Bodies :
       /\ text' = ParshaText(text, ParshaFromBody(body))
       /\ parsha' = ParshaDone([parsha EXCEPT !.body = body],
                               ParshaFromBody(body))
  /\ UNCHANGED <<now, LAT, dom, pc, CAL_OFFSET_MS, calWrites, usedOffsets,
                 weekday, shabbos>>

Next ==
  \/ SetYear
  \/ Calibrate
  \/ UpdateWeekday
  \/ UpdateShabbos
  \/ StartParsha
  \/ FetchSettled
  \/ JsonSettled

Spec == Init /\ [][Next]_vars

\* the network layer settles every fetch and every body read, with a value
\* or with an error, and the event loop then runs the continuation
FairSpec == Spec /\ WF_vars(FetchSettled) /\ WF_vars(JsonSettled)

(***************************************************************************)
(* Properties                                                              *)
(***************************************************************************)
\* the least element of a non-empty set of instants
MinOf(S) == CHOOSE m \in S : \A x \in S : m <= x

\* the ordinal of a day number in its year: January 1 is 1
Ordinal(day) == day - DayFromYear(YearFromDay(day)) + 1

\* the day number of REFERENCE_SHABBOS
RefDay ==
  MakeDay(REFERENCE_SHABBOS[1], REFERENCE_SHABBOS[2] - 1, REFERENCE_SHABBOS[3])

\* the indices of the weekday loop whose sunset was computable
Computable == { i \in 1..5 : weekday.each[i] # NULL }

\* the text each schedule owes its slots, from its own locals alone
WeekdayOwed ==
  IF ~weekday.ran THEN PLACEHOLDER
  ELSE IF weekday.failed THEN WEEKDAY_FALLBACK
  ELSE formatTimeLocal(weekday.minchaTime)

ShabbosOwed(id) ==
  IF ~shabbos.ran THEN PLACEHOLDER
  ELSE IF shabbos.failed THEN SHABBOS_FALLBACK
  ELSE IF id = "erevShabbosMinchaTime"
       THEN formatTimeLocal(shabbos.times.erevMincha)
  ELSE IF id \in {"shabbosMinchaTime", "heroShabbosMincha"}
       THEN formatTimeLocal(shabbos.times.shabbosMincha)
  ELSE formatTimeLocal(shabbos.times.maariv)

\* the positions of an item list at which find() stops: a null item (the
\* callback throws) or a parashat item (found)
Stops(items) ==
  { i \in DOMAIN items : items[i].null \/ items[i].category = "parashat" }

\* the lookup failed: the fetch rejected or answered with an error status,
\* the body was not JSON, or the value had no usable item list
LookupFailed ==
  \/ parsha.fetch \in {"reject", "404", "500"}
  \/ parsha.body.kind \in {"invalid", "null", "noItems"}
  \/ /\ parsha.body.kind = "items"
     /\ Stops(parsha.body.items) # {}
     /\ parsha.body.items[MinOf(Stops(parsha.body.items))].null

\* the text the lookup owes the reading-name slot, from what the network
\* delivered to it
ParshaOwed ==
  IF parsha.at # "returned" THEN PLACEHOLDER
  ELSE IF LookupFailed \/ Stops(parsha.body.items) = {} THEN DASH
  ELSE LET it == parsha.body.items[MinOf(Stops(parsha.body.items))]
       IN  IF it.hebrew # "" THEN it.hebrew
           ELSE IF it.title # "" THEN it.title
           ELSE DASH

ReadingNames == ({ it.hebrew : it \in Items } \cup { it.title : it \in Items }) \ {""}

C2_CalibrationRoundTrip ==
  /\ pc = "weekday" =>
       \A s \in { getSunsetWithCalibration(
                    setHours(ParseLocalDate(REFERENCE_SHABBOS), 12, 0)) } :
         s # NULL =>
           /\ s + REFERENCE_MAARIV_OFFSET_MIN
                = parseLocalTimeOnDate(REFERENCE_SHABBOS,
                                       REFERENCE_MOTZAEI_MAARIV)
           /\ LocalDay(s) = RefDay
           /\ formatTimeLocal(s) = "4:27 PM"
  /\ (shabbos.ran /\ LocalDay(shabbos.date) = RefDay /\ ~shabbos.failed) =>
       /\ LocalTime(shabbos.sunset) = RefDay * MIN_PER_DAY + 16 * 60 + 27
       /\ "shabbosMaarivTime" \in dom => text["shabbosMaarivTime"] = "5:17 PM"

\* C2 witness: the Shabbos schedule of the reference week has run with a
\* non-zero offset stored
C2_Witness ==
  /\ shabbos.ran
  /\ LocalDay(shabbos.date) = RefDay
  /\ ~shabbos.failed
  /\ CAL_OFFSET_MS # 0
  /\ "shabbosMaarivTime" \in dom

\* C3: the date getComingShabbos selects is a Saturday d days after today's
\* date, 0 <= d <= 7; d = 7 exactly on Saturday from 18:00, d = 0 exactly on
\* Saturday before 18:00, and d = 6 - (day of week) on the other days.
C3_ComingShabbos ==
  shabbos.ran =>
    \A d \in { LocalDay(shabbos.date) - LocalDay(now) } :
      /\ getDay(shabbos.date) = 6
      /\ 0 <= d /\ d <= 7
      /\ d = 7 <=> (getDay(now) = 6 /\ getHours(now) >= 18)
      /\ d = 0 <=> (getDay(now) = 6 /\ getHours(now) < 18)
      /\ getDay(now) # 6 => d = 6 - getDay(now)

\* C3 witness: the page is loaded on a Saturday at 18:00 and the Shabbos
\* selected is a week later
C3_Witness ==
  /\ shabbos.ran
  /\ getDay(now) = 6
  /\ getHours(now) = 18
  /\ LocalDay(shabbos.date) = LocalDay(now) + 7

\* C4: when the selected Saturday's calibrated sunset S is computable, the
\* instants are erev Mincha = S - 15, day Mincha = S - 45, Maariv = S + 50
\* (minutes) and the slots show them; when it is not, the schedule fails and
\* no Shabbos slot shows a time.
C4_ShabbosDerivation ==
  shabbos.ran =>
    IF shabbos.sunset # NULL
    THEN /\ ~shabbos.failed
         /\ shabbos.times.erevMincha = shabbos.sunset - 15
         /\ shabbos.times.shabbosMincha = shabbos.sunset - 45
         /\ shabbos.times.maariv = shabbos.sunset + 50
         /\ shabbos.times.shabbosMincha < shabbos.times.erevMincha
         /\ shabbos.times.erevMincha < shabbos.sunset
         /\ shabbos.sunset < shabbos.times.maariv
         /\ \A id \in ShabbosIds \cap dom :
              text[id] =
                formatTimeLocal(
                  IF id = "erevShabbosMinchaTime" THEN shabbos.sunset - 15
                  ELSE IF id \in {"shabbosMinchaTime", "heroShabbosMincha"}
                       THEN shabbos.sunset - 45
                  ELSE shabbos.sunset + 50)
    ELSE /\ shabbos.failed
         /\ \A id \in ShabbosIds \cap dom : text[id] = SHABBOS_FALLBACK

\* C4 witness: a computable Shabbos sunset whose three times are shown
C4_Witness ==
  /\ shabbos.ran
  /\ shabbos.sunset # NULL
  /\ ShabbosIds \subseteq dom
  /\ text["erevShabbosMinchaTime"] # text["shabbosMinchaTime"]
  /\ text["shabbosMaarivTime"] = formatTimeLocal(shabbos.sunset + 50)

\* C5: every slot holds what its own operation owes it, whatever became of
\* the other two: a failed weekday schedule leaves "Check shul board" in the
\* weekday slots, a failed Shabbos schedule "See local listing" in the
\* Shabbos slots, and when the handler returns all three operations have
\* been started and both schedules have completed.
C5_FailureIsolation ==
  /\ \A id \in WeekdayIds \cap dom : text[id] = WeekdayOwed
  /\ \A id \in ShabbosIds \cap dom : text[id] = ShabbosOwed(id)
  /\ "parshaName" \in dom => text["parshaName"] = ParshaOwed
  /\ (weekday.ran /\ weekday.failed) =>
       \A id \in WeekdayIds \cap dom : text[id] = WEEKDAY_FALLBACK
  /\ (shabbos.ran /\ shabbos.failed) =>
       \A id \in ShabbosIds \cap dom : text[id] = SHABBOS_FALLBACK
  /\ pc = "returned" => (weekday.ran /\ shabbos.ran /\ parsha.at # "idle")

\* C5 witness: one schedule failed and the other did not, and the lookup
\* failed with HTTP 500
C5_Witness ==
  /\ pc = "returned"
  /\ weekday.failed # shabbos.failed
  /\ parsha.at = "returned"
  /\ parsha.fetch = "500"
  /\ dom = AllIds

\* C6: when the fetch rejects or answers with a non-2xx status, or the body
\* is not JSON or has no usable item list, updateParsha ends with the dash in
\* the reading-name slot and its promise fulfilled; its promise is never
\* rejected.
C6_LookupFailure ==
  /\ parsha.promise # "rejected"
  /\ (parsha.at = "returned" /\ "parshaName" \in dom /\ LookupFailed) =>
       /\ text["parshaName"] = DASH
       /\ parsha.promise = "fulfilled"

\* C6 witness: the lookup has ended after an HTTP 500 and the slot shows
\* the dash
C6_Witness ==
  /\ parsha.at = "returned"
  /\ parsha.fetch = "500"
  /\ text["parshaName"] = DASH
  /\ parsha.promise = "fulfilled"

\* C7: CAL_OFFSET_MS is written exactly once, before the first step of the
\* weekday schedule, the Shabbos schedule and the lookup; no later step
\* writes it, and every sunset of the session is moved by that one offset.
C7_OffsetWrittenOnce ==
  /\ [](calWrites = 0 =>
          (~weekday.ran /\ ~shabbos.ran /\ parsha.at = "idle"
             /\ usedOffsets = {}))
  /\ [](pc \in {"weekday", "shabbos", "parsha", "returned"} => calWrites = 1)
  /\ [](usedOffsets \subseteq {CAL_OFFSET_MS})
  /\ [][calWrites >= 1 =>
          (CAL_OFFSET_MS' = CAL_OFFSET_MS /\ calWrites' = calWrites)]_vars

\* C7 witness: the whole load has run, lookup continuation included, with
\* one write and sunsets moved by the non-zero offset
C7_Witness ==
  /\ pc = "returned"
  /\ parsha.at = "returned"
  /\ parsha.body.kind = "items"
  /\ calWrites = 1
  /\ CAL_OFFSET_MS # 0
  /\ usedOffsets = {CAL_OFFSET_MS}

C9_DayOfYearIsOrdinal ==
  shabbos.ran =>
    dayOfYear(NewDate(getFullYear(shabbos.date), getMonth(shabbos.date),
                      getDate(shabbos.date)))
      = Ordinal(LocalDay(shabbos.date))

\* C10: at the shipped latitude, the raw sunset instant of a requested
\* date lies within that local calendar day.
C10_SunsetOnRequestedDay ==
  (shabbos.ran /\ ~shabbos.failed /\ LAT = LAT_MT_IVY) =>
    LocalDay(shabbos.sunset - OffsetAdded \div MS_PER_MIN)
      = LocalDay(shabbos.date)

====
